---- MODULE Spec2Model ----
(***************************************************************************)
(* MSSQLToGCSOperator (airflow/providers/google/cloud/transfers/           *)
(* mssql_to_gcs.py): the cursor acquirer query(), the schema field builder *)
(* field_to_bigquery(), the type mapping type_map() and the value          *)
(* converter convert_type().                                               *)
(*                                                                         *)
(* Python strings are sequences of one-character strings, so that          *)
(* str.lower(), str.upper() and str.replace() are computed character by    *)
(* character.  A Python tuple t is a sequence; Python's t[i] is t[i + 1].  *)
(* The outcome of a call is a record: Return(v) or Raise(exception name).  *)
(***************************************************************************)
EXTENDS Integers, Sequences, FiniteSets, TLC

(* ------------------------------ bounds --------------------------------- *)

\* longest type name drawn from TagAlphabet
MaxTagLen == 3

\* longest column name drawn from NameAlphabet
MaxNameLen == 3

\* number of cursors opened on the source connection in one behaviour
MaxCursors == 2

\* largest integer cell value handed to convert_type
MaxValue == 2

(* --------------------------- Python values ----------------------------- *)

None == [kind |-> "None"]

\* a class object: it carries __name__
PyType(name) == [kind |-> "type", name |-> name]

\* a str instance: it has no __name__
PyStr(chars) == [kind |-> "str", value |-> chars]

PyInt(n) == [kind |-> "int", value |-> n]

Return(v) == [raised |-> "none", value |-> v]

Raise(exc) == [raised |-> exc, value |-> None]

\* all sequences over alphabet of length at most n
RECURSIVE SeqsUpTo(_, _)
SeqsUpTo(alphabet, n) ==
    IF n = 0 THEN {<<>>}
    ELSE LET shorter == SeqsUpTo(alphabet, n - 1)
         IN  shorter \cup {Append(s, c) : s \in shorter, c \in alphabet}

ToLower ==
       ("A" :> "a")
    @@ ("B" :> "b")
    @@ ("C" :> "c")
    @@ ("D" :> "d")
    @@ ("E" :> "e")
    @@ ("F" :> "f")
    @@ ("G" :> "g")
    @@ ("H" :> "h")
    @@ ("I" :> "i")
    @@ ("J" :> "j")
    @@ ("K" :> "k")
    @@ ("L" :> "l")
    @@ ("M" :> "m")
    @@ ("N" :> "n")
    @@ ("O" :> "o")
    @@ ("P" :> "p")
    @@ ("Q" :> "q")
    @@ ("R" :> "r")
    @@ ("S" :> "s")
    @@ ("T" :> "t")
    @@ ("U" :> "u")
    @@ ("V" :> "v")
    @@ ("W" :> "w")
    @@ ("X" :> "x")
    @@ ("Y" :> "y")
    @@ ("Z" :> "z")

ToUpper ==
       ("a" :> "A")
    @@ ("b" :> "B")
    @@ ("c" :> "C")
    @@ ("d" :> "D")
    @@ ("e" :> "E")
    @@ ("f" :> "F")
    @@ ("g" :> "G")
    @@ ("h" :> "H")
    @@ ("i" :> "I")
    @@ ("j" :> "J")
    @@ ("k" :> "K")
    @@ ("l" :> "L")
    @@ ("m" :> "M")
    @@ ("n" :> "N")
    @@ ("o" :> "O")
    @@ ("p" :> "P")
    @@ ("q" :> "Q")
    @@ ("r" :> "R")
    @@ ("s" :> "S")
    @@ ("t" :> "T")
    @@ ("u" :> "U")
    @@ ("v" :> "V")
    @@ ("w" :> "W")
    @@ ("x" :> "X")
    @@ ("y" :> "Y")
    @@ ("z" :> "Z")

\* str.lower()
lower(s) == [i \in DOMAIN s |-> IF s[i] \in DOMAIN ToLower THEN ToLower[s[i]] ELSE s[i]]

\* str.upper()
upper(s) == [i \in DOMAIN s |-> IF s[i] \in DOMAIN ToUpper THEN ToUpper[s[i]] ELSE s[i]]

\* str.capitalize()
capitalize(s) ==
    [i \in DOMAIN s |-> IF i = 1 THEN upper(s)[i] ELSE lower(s)[i]]

\* str.replace(old, new) for one-character old and new
replace(s, old, new) == [i \in DOMAIN s |-> IF s[i] = old THEN new ELSE s[i]]

(* ------------------------------ type_map ------------------------------- *)

schema_dict_DateAsDatetime ==
       (<<"i", "n", "t">> :> "INTEGER")
    @@ (<<"t", "i", "n", "y", "i", "n", "t">> :> "INTEGER")
    @@ (<<"s", "m", "a", "l", "l", "i", "n", "t">> :> "INTEGER")
    @@ (<<"b", "i", "g", "i", "n", "t">> :> "INTEGER")
    @@ (<<"b", "i", "t">> :> "BOOLEAN")
    @@ (<<"b", "o", "o", "l">> :> "BOOLEAN")
    @@ (<<"c", "h", "a", "r">> :> "STRING")
    @@ (<<"v", "a", "r", "c", "h", "a", "r">> :> "STRING")
    @@ (<<"t", "e", "x", "t">> :> "STRING")
    @@ (<<"n", "c", "h", "a", "r">> :> "STRING")
    @@ (<<"n", "v", "a", "r", "c", "h", "a", "r">> :> "STRING")
    @@ (<<"n", "t", "e", "x", "t">> :> "STRING")
    @@ (<<"u", "u", "i", "d">> :> "STRING")
    @@ (<<"s", "t", "r">> :> "STRING")
    @@ (<<"m", "o", "n", "e", "y">> :> "NUMERIC")
    @@ (<<"n", "u", "m", "e", "r", "i", "c">> :> "NUMERIC")
    @@ (<<"s", "m", "a", "l", "l", "m", "o", "n", "e", "y">> :> "NUMERIC")
    @@ (<<"d", "e", "c", "i", "m", "a", "l">> :> "NUMERIC")
    @@ (<<"d", "a", "t", "e", "t", "i", "m", "e">> :> "DATETIME")
    @@ (<<"d", "a", "t", "e", "t", "i", "m", "e", "2">> :> "DATETIME")
    @@ (<<"s", "m", "a", "l", "l", "d", "a", "t", "e", "t", "i", "m", "e">> :> "DATETIME")
    @@ (<<"d", "a", "t", "e">> :> "DATETIME")
    @@ (<<"t", "i", "m", "e">> :> "TIME")
    @@ (<<"f", "l", "o", "a", "t">> :> "FLOAT")
    @@ (<<"r", "e", "a", "l">> :> "FLOAT")
    @@ (<<"d", "o", "u", "b", "l", "e">> :> "FLOAT")

schema_dict ==
       (<<"i", "n", "t">> :> "INTEGER")
    @@ (<<"t", "i", "n", "y", "i", "n", "t">> :> "INTEGER")
    @@ (<<"s", "m", "a", "l", "l", "i", "n", "t">> :> "INTEGER")
    @@ (<<"b", "i", "g", "i", "n", "t">> :> "INTEGER")
    @@ (<<"b", "i", "t">> :> "BOOLEAN")
    @@ (<<"b", "o", "o", "l">> :> "BOOLEAN")
    @@ (<<"c", "h", "a", "r">> :> "STRING")
    @@ (<<"v", "a", "r", "c", "h", "a", "r">> :> "STRING")
    @@ (<<"t", "e", "x", "t">> :> "STRING")
    @@ (<<"n", "c", "h", "a", "r">> :> "STRING")
    @@ (<<"n", "v", "a", "r", "c", "h", "a", "r">> :> "STRING")
    @@ (<<"n", "t", "e", "x", "t">> :> "STRING")
    @@ (<<"u", "u", "i", "d">> :> "STRING")
    @@ (<<"s", "t", "r">> :> "STRING")
    @@ (<<"m", "o", "n", "e", "y">> :> "NUMERIC")
    @@ (<<"n", "u", "m", "e", "r", "i", "c">> :> "NUMERIC")
    @@ (<<"s", "m", "a", "l", "l", "m", "o", "n", "e", "y">> :> "NUMERIC")
    @@ (<<"d", "e", "c", "i", "m", "a", "l">> :> "NUMERIC")
    @@ (<<"d", "a", "t", "e", "t", "i", "m", "e">> :> "DATETIME")
    @@ (<<"d", "a", "t", "e", "t", "i", "m", "e", "2">> :> "DATETIME")
    @@ (<<"s", "m", "a", "l", "l", "d", "a", "t", "e", "t", "i", "m", "e">> :> "DATETIME")
    @@ (<<"d", "a", "t", "e">> :> "DATE")
    @@ (<<"t", "i", "m", "e">> :> "TIME")
    @@ (<<"f", "l", "o", "a", "t">> :> "FLOAT")
    @@ (<<"r", "e", "a", "l">> :> "FLOAT")
    @@ (<<"d", "o", "u", "b", "l", "e">> :> "FLOAT")

\* type_map with the .lower() of lines 111-112 left out
type_map_CaseSensitive(mssql_type) ==
    IF mssql_type.kind # "type" THEN Raise("AttributeError")
    ELSE LET value == mssql_type.name
         IN  IF value \in DOMAIN schema_dict
             THEN Return(schema_dict[value])
             ELSE Return("STRING")

\* type_map that indexes the table without the membership test of line 111
type_map_NoFallback(mssql_type) ==
    IF mssql_type.kind # "type" THEN Raise("AttributeError")
    ELSE LET value == mssql_type.name
         IN  IF lower(value) \in DOMAIN schema_dict
             THEN Return(schema_dict[lower(value)])
             ELSE Raise("KeyError")

\* MSSQLToGCSOperator.type_map(mssql_type): mssql_type.__name__ exists on a
\* class object only; the lower-cased name is looked up, STRING otherwise.
type_map(mssql_type) ==
    IF mssql_type.kind # "type" THEN Raise("AttributeError")
    ELSE LET value == mssql_type.name
         IN  IF lower(value) \in DOMAIN schema_dict
             THEN Return(schema_dict[lower(value)])
             ELSE Return("STRING")

(* ---------------------------- convert_type ----------------------------- *)

\* convert_type that stringifies the value for a STRING column
convert_type_Stringify(value, schema_type) ==
    IF schema_type = "STRING" /\ value.kind = "int"
    THEN Return(PyStr(<<"0">>))
    ELSE Return(value)

\* MSSQLToGCSOperator.convert_type(value, schema_type)
convert_type(value, schema_type) == Return(value)

(* -------------------------- field_to_bigquery -------------------------- *)

\* attributes of the bound method object self.type_map; "get" is not one
MethodAttributes == {"__func__", "__self__", "__name__", "__doc__", "__call__"}

\* self.type_map.<attr>: attribute lookup on the bound method
type_map_getattr(attr) ==
    IF attr \in MethodAttributes THEN Return(attr) ELSE Raise("AttributeError")

\* truth value of a cursor-description flag
truthy(flag) == flag = TRUE

\* MSSQLToGCSOperator.field_to_bigquery(field).  The dict display is
\* evaluated left to right: field[0].replace, then self.type_map.get, then
\* its arguments field[1], then field[6].
field_to_bigquery(field) ==
    IF Len(field) < 1 THEN Raise("IndexError")
    ELSE IF field[1].kind # "str" THEN Raise("AttributeError")
    ELSE LET name == replace(field[1].value, " ", "_")
             get  == type_map_getattr("get")
         IN  IF get.raised # "none" THEN get
             ELSE IF Len(field) < 7 THEN Raise("IndexError")
             ELSE Return([name |-> name,
                          type |-> get.value,
                          mode |-> IF truthy(field[7]) THEN "NULLABLE" ELSE "REQUIRED"])

(* ------------------------- the source database ------------------------- *)

\* one entry of cursor.description:
\* (name, type_code, display_size, internal_size, precision, scale, null_ok)
Column(name, type_code, null_ok) ==
    <<PyStr(name), type_code, None, None, None, None, null_ok>>

IntType == PyType(<<"i", "n", "t">>)

DecimalType == PyType(<<"D", "e", "c", "i", "m", "a", "l">>)

BytearrayType == PyType(<<"b", "y", "t", "e", "a", "r", "r", "a", "y">>)

CustomersSql == "SELECT * FROM dbo.Customers;"

OrdersSql == "SELECT Total FROM dbo.Orders WHERE 1 = 0;"

MalformedSql == "SELEC"

\* what the server answers to each statement it accepts
Database ==
       (CustomersSql :>
           [description |-> <<Column(<<"C", " ", "I">>, IntType, FALSE),
                              Column(<<"T">>, DecimalType, TRUE)>>,
            rows |-> <<<<PyInt(1), PyInt(2)>>,
                       <<PyInt(0), None>>,
                       <<PyInt(1), PyInt(2)>>>>])
    @@ (OrdersSql :>
           [description |-> <<Column(<<"T">>, DecimalType, FALSE)>>,
            rows |-> <<>>])

SqlStatements == {CustomersSql, OrdersSql, MalformedSql}

ReachableConnIds == {"mssql_default"}

ConnIds == {"mssql_default", "mssql_down"}

\* a cursor on which statement has been executed, before the first row
Cursor(conn_id, statement) ==
    [kind |-> "cursor", conn_id |-> conn_id, statement |-> statement,
     description |-> Database[statement].description,
     rows |-> Database[statement].rows, rownumber |-> 0]

\* OdbcHook(...).get_conn().raw_connection().cursor().execute(statement)
hook_execute(conn_id, statement) ==
    IF conn_id \notin ReachableConnIds THEN Raise("OperationalError")
    ELSE IF statement \notin DOMAIN Database THEN Raise("ProgrammingError")
    ELSE Return(Cursor(conn_id, statement))

(* -------------------------------- query -------------------------------- *)

\* MSSQLToGCSOperator.query(): the statement is executed on a new cursor;
\* the method body ends after cursor.execute(self.sql), so the call
\* evaluates to None.  opened: the cursors the call leaves on the connection.
query(conn_id, statement) ==
    LET executed == hook_execute(conn_id, statement)
    IN  IF executed.raised # "none"
        THEN [opened |-> <<>>, result |-> executed]
        ELSE [opened |-> <<executed.value>>, result |-> Return(None)]

(* ------------------------------- export -------------------------------- *)

\* the base operator's use of the three hooks: the description is read
\* once, every column goes through field_to_bigquery, every row is fetched
\* in order and every value goes through convert_type.
\* fetched: the number of rows pulled from the cursor.
export(queried) ==
    IF queried.raised # "none" THEN [fetched |-> 0, result |-> queried]
    ELSE IF queried.value.kind # "cursor"
    THEN [fetched |-> 0, result |-> Raise("AttributeError")]
    ELSE LET cursor == queried.value
             fields == [i \in DOMAIN cursor.description |->
                            field_to_bigquery(cursor.description[i])]
             failed == {i \in DOMAIN fields : fields[i].raised # "none"}
         IN  IF failed # {}
             THEN [fetched |-> 0,
                   result |-> fields[CHOOSE i \in failed : \A j \in failed : i <= j]]
             ELSE [fetched |-> Len(cursor.rows),
                   result |-> Return(
                     [schema |-> [i \in DOMAIN fields |-> fields[i].value],
                      rows |-> [r \in DOMAIN cursor.rows |->
                                 [c \in DOMAIN cursor.rows[r] |->
                                    convert_type(cursor.rows[r][c],
                                                 fields[c].value.type).value]]])]

(* ------------------------------- inputs -------------------------------- *)

TagAlphabet == {"i", "n", "t", "b", "I", "N", "T"}

NameAlphabet == {" ", "a", "_"}

DestinationTypeTags ==
    {"INTEGER", "BOOLEAN", "STRING", "NUMERIC", "DATETIME", "DATE", "TIME", "FLOAT"}

\* type names: every spelling of the table's keys in lower, upper and
\* capitalized form, and every short name over TagAlphabet
TagNames ==
    SeqsUpTo(TagAlphabet, MaxTagLen)
        \cup DOMAIN schema_dict
        \cup {upper(k) : k \in DOMAIN schema_dict}
        \cup {capitalize(k) : k \in DOMAIN schema_dict}
        \cup {<<"x", "m", "l">>, <<"b", "y", "t", "e", "a", "r", "r", "a", "y">>}

\* a type code is a class object (what the driver reports) or a plain string
TypeCodes == {PyType(n) : n \in TagNames} \cup {PyStr(n) : n \in TagNames}

ColumnNames == SeqsUpTo(NameAlphabet, MaxNameLen)

FieldTypeCodes ==
    {IntType, DecimalType, BytearrayType, PyStr(<<"x", "m", "l">>)}

WellFormedFields ==
    {Column(n, t, b) : n \in ColumnNames, t \in FieldTypeCodes, b \in BOOLEAN}

\* tuples cut short by a nonstandard driver
ShortFields ==
    {SubSeq(Column(<<"a", " ">>, IntType, TRUE), 1, k) : k \in 0..6}

Values ==
    {PyInt(n) : n \in 0..MaxValue}
        \cup {PyStr(s) : s \in SeqsUpTo(NameAlphabet, 1)}
        \cup {None}

Calls ==
    {[method |-> "type_map", params |-> <<t>>] : t \in TypeCodes}
        \cup {[method |-> "field_to_bigquery", params |-> <<f>>] :
                 f \in WellFormedFields \cup ShortFields}
        \cup {[method |-> "convert_type", params |-> <<v, t>>] :
                 v \in Values, t \in DestinationTypeTags}

(* --------------------------- state machine ----------------------------- *)

\* self.mssql_conn_id
VARIABLE mssql_conn_id

\* self.sql
VARIABLE sql

\* the cursors opened on the source connection, oldest first
VARIABLE cursors

\* the helper call the caller is about to make
VARIABLE pending

\* the most recent call: method, params and outcome
VARIABLE last

vars == <<mssql_conn_id, sql, cursors, pending, last>>

Init ==
    /\ mssql_conn_id \in ConnIds
    /\ sql \in SqlStatements
    /\ cursors = <<>>
    /\ pending \in Calls
    /\ last = [method |-> "__init__", params |-> <<>>, result |-> Return(None)]

\* cursor = self.query()
Query ==
    /\ Len(cursors) < MaxCursors
    /\ LET q == query(mssql_conn_id, sql)
       IN  /\ cursors' = cursors \o q.opened
           /\ last' = [method |-> "query", params |-> <<>>, result |-> q.result]
    /\ UNCHANGED <<mssql_conn_id, sql, pending>>

\* one export: query(), then the schema and the row stream
Execute ==
    /\ Len(cursors) < MaxCursors
    /\ LET q == query(mssql_conn_id, sql)
           e == export(q.result)
       IN  /\ cursors' = cursors \o
                 [i \in DOMAIN q.opened |->
                     [q.opened[i] EXCEPT !.rownumber = e.fetched]]
           /\ last' = [method |-> "execute", params |-> <<>>, result |-> e.result]
    /\ UNCHANGED <<mssql_conn_id, sql, pending>>

\* self.type_map(mssql_type)
TypeMap ==
    /\ pending.method = "type_map"
    /\ last' = pending @@ [result |-> type_map(pending.params[1])]
    /\ UNCHANGED <<mssql_conn_id, sql, cursors, pending>>

\* self.field_to_bigquery(field)
FieldToBigquery ==
    /\ pending.method = "field_to_bigquery"
    /\ last' = pending @@ [result |-> field_to_bigquery(pending.params[1])]
    /\ UNCHANGED <<mssql_conn_id, sql, cursors, pending>>

\* self.convert_type(value, schema_type)
ConvertType ==
    /\ pending.method = "convert_type"
    /\ last' = pending @@
               [result |-> convert_type(pending.params[1], pending.params[2])]
    /\ UNCHANGED <<mssql_conn_id, sql, cursors, pending>>

Next == Query \/ Execute \/ TypeMap \/ FieldToBigquery \/ ConvertType

Spec == Init /\ [][Next]_vars

(* ------------------- the table as the document gives it ---------------- *)

IntegerFamily ==
    {<<"i", "n", "t">>,
     <<"t", "i", "n", "y", "i", "n", "t">>,
     <<"s", "m", "a", "l", "l", "i", "n", "t">>,
     <<"b", "i", "g", "i", "n", "t">>}

BooleanFamily ==
    {<<"b", "i", "t">>,
     <<"b", "o", "o", "l">>}

StringFamily ==
    {<<"c", "h", "a", "r">>,
     <<"v", "a", "r", "c", "h", "a", "r">>,
     <<"t", "e", "x", "t">>,
     <<"n", "c", "h", "a", "r">>,
     <<"n", "v", "a", "r", "c", "h", "a", "r">>,
     <<"n", "t", "e", "x", "t">>,
     <<"u", "u", "i", "d">>,
     <<"s", "t", "r">>}

NumericFamily ==
    {<<"m", "o", "n", "e", "y">>,
     <<"n", "u", "m", "e", "r", "i", "c">>,
     <<"s", "m", "a", "l", "l", "m", "o", "n", "e", "y">>,
     <<"d", "e", "c", "i", "m", "a", "l">>}

DatetimeFamily ==
    {<<"d", "a", "t", "e", "t", "i", "m", "e">>,
     <<"d", "a", "t", "e", "t", "i", "m", "e", "2">>,
     <<"s", "m", "a", "l", "l", "d", "a", "t", "e", "t", "i", "m", "e">>}

DateFamily ==
    {<<"d", "a", "t", "e">>}

TimeFamily ==
    {<<"t", "i", "m", "e">>}

FloatFamily ==
    {<<"f", "l", "o", "a", "t">>,
     <<"r", "e", "a", "l">>,
     <<"d", "o", "u", "b", "l", "e">>}

(* ------------------------------- claims -------------------------------- *)

\* the column metadata a call of field_to_bigquery was given
CalledField == last.params[1]

\* the type code a call of type_map was given, and the characters of its tag
CalledTypeCode == last.params[1]

CalledTag ==
    IF CalledTypeCode.kind = "type" THEN CalledTypeCode.name ELSE CalledTypeCode.value

\* C1: whenever query() completes, the value it hands back is the cursor on
\* which self.sql was executed, before the first row and with its column
\* metadata, never an absent value.
C1_QueryReturnsCursor ==
    (last.method = "query" /\ last.result.raised = "none")
        => /\ last.result.value.kind = "cursor"
           /\ last.result.value.statement = sql
           /\ last.result.value.rownumber = 0
           /\ last.result.value.description = Database[sql].description

\* C2: for every seven-position metadata tuple field_to_bigquery completes
\* and returns a descriptor whose keys are exactly name, type and mode.
C2_FieldNeverRaises ==
    (last.method = "field_to_bigquery" /\ Len(CalledField) = 7)
        => /\ last.result.raised = "none"
           /\ DOMAIN last.result.value = {"name", "type", "mode"}

\* C3: the type of the descriptor returned by field_to_bigquery is type_map
\* applied to the type code at metadata position 1.
C3_FieldTypeIsTypeMap ==
    (last.method = "field_to_bigquery" /\ Len(CalledField) = 7
        /\ CalledField[2].kind = "type")
        => /\ last.result.raised = "none"
           /\ last.result.value.type = type_map(CalledField[2]).value

\* C4: the mode of the descriptor returned by field_to_bigquery is NULLABLE
\* when the nullable flag is truthy and REQUIRED otherwise.
C4_FieldMode ==
    (last.method = "field_to_bigquery" /\ Len(CalledField) = 7)
        => /\ last.result.raised = "none"
           /\ (CalledField[7] = TRUE => last.result.value.mode = "NULLABLE")
           /\ (CalledField[7] = FALSE => last.result.value.mode = "REQUIRED")

\* C5: the name of the descriptor returned by field_to_bigquery has the
\* length of the column name, an underscore wherever the column name has a
\* space and the column name's own character everywhere else.
C5_FieldNameSanitized ==
    (last.method = "field_to_bigquery" /\ Len(CalledField) = 7)
        => /\ last.result.raised = "none"
           /\ Len(last.result.value.name) = Len(CalledField[1].value)
           /\ \A i \in DOMAIN CalledField[1].value :
                 last.result.value.name[i] =
                     IF CalledField[1].value[i] = " " THEN "_"
                     ELSE CalledField[1].value[i]

\* C6 as stated: for every type tag handed to type_map, a plain string
\* included, the call completes with a destination type tag, and a tag that
\* is not in the table gives STRING.
C6_TypeMapTotal ==
    last.method = "type_map"
        => /\ last.result.raised = "none"
           /\ last.result.value \in DestinationTypeTags
           /\ (lower(CalledTag) \notin DOMAIN schema_dict
                  => last.result.value = "STRING")

\* C6 amended: for every class object handed to type_map, whatever its
\* __name__, the call completes with a destination type tag, and a name whose
\* lower-case form is not in the table gives STRING.
C6_TypeMapTotalOnTypes ==
    (last.method = "type_map" /\ CalledTypeCode.kind = "type")
        => /\ last.result.raised = "none"
           /\ last.result.value \in DestinationTypeTags
           /\ (lower(CalledTag) \notin DOMAIN schema_dict
                  => last.result.value = "STRING")

C6_Witness ==
    /\ last.method = "type_map"
    /\ CalledTypeCode = PyType(<<"x", "m", "l">>)
    /\ last.result = Return("STRING")

\* C7: a type whose name is any spelling of a table key maps to what the
\* key's lower-case and upper-case spellings map to.
C7_TypeMapCaseInsensitive ==
    (last.method = "type_map" /\ CalledTypeCode.kind = "type"
        /\ lower(CalledTag) \in DOMAIN schema_dict)
        => /\ last.result.raised = "none"
           /\ last.result = type_map(PyType(lower(CalledTag)))
           /\ last.result = type_map(PyType(upper(CalledTag)))

C7_Witness ==
    /\ last.method = "type_map"
    /\ CalledTypeCode = PyType(upper(<<"d", "a", "t", "e", "t", "i", "m", "e", "2">>))
    /\ last.result = Return("DATETIME")

\* C8: type_map gives each family of the table its destination type, and
\* whatever it returns is one of the eight destination type tags.
C8_TypeMapTable ==
    (last.method = "type_map" /\ CalledTypeCode.kind = "type")
        => /\ last.result.raised = "none"
           /\ last.result.value \in DestinationTypeTags
           /\ (CalledTag \in IntegerFamily => last.result.value = "INTEGER")
           /\ (CalledTag \in BooleanFamily => last.result.value = "BOOLEAN")
           /\ (CalledTag \in StringFamily => last.result.value = "STRING")
           /\ (CalledTag \in NumericFamily => last.result.value = "NUMERIC")
           /\ (CalledTag \in DatetimeFamily => last.result.value = "DATETIME")
           /\ (CalledTag \in DateFamily => last.result.value = "DATE")
           /\ (CalledTag \in TimeFamily => last.result.value = "TIME")
           /\ (CalledTag \in FloatFamily => last.result.value = "FLOAT")

C8_Witness ==
    /\ last.method = "type_map"
    /\ CalledTypeCode = PyType(<<"d", "a", "t", "e">>)
    /\ last.result = Return("DATE")

\* C9: convert_type completes and returns the value it was given, whatever
\* the destination type.
C9_ConvertTypeIdentity ==
    last.method = "convert_type" => last.result = Return(last.params[1])

C9_Witness ==
    /\ last.method = "convert_type"
    /\ last.params = <<PyInt(0), "STRING">>
    /\ last.result = Return(PyInt(0))

\* C10: an export of a statement the server accepts yields every row of the
\* result set, in fetch order and with the result set's arity, and one
\* descriptor per column.
C10_RowStream ==
    (last.method = "execute" /\ mssql_conn_id \in ReachableConnIds
        /\ sql \in DOMAIN Database)
        => /\ last.result.raised = "none"
           /\ Len(last.result.value.schema) = Len(Database[sql].description)
           /\ Len(last.result.value.rows) = Len(Database[sql].rows)
           /\ \A r \in DOMAIN Database[sql].rows :
                 last.result.value.rows[r] = Database[sql].rows[r]

====
